---- MODULE Spec2Model ----
(***************************************************************************)
(* Model of the manifest-server aggregation/broadcast engine.              *)
(*                                                                         *)
(* pkg/server/grpc.go: the Broadcast Actor (processUpdates), the           *)
(* construction of a ManifestUpdate from the producers (constructUpdate),  *)
(* the differential update (diff), proto.Merge into lastUpdate, and the    *)
(* admission functions addClient / removeClient / StreamUpdates.           *)
(* pkg/core/controller.go: the DataSource flags and WakeListeners.         *)
(*                                                                         *)
(* processUpdates is modelled as an open component: it serves whatever     *)
(* arrives on addClientChan, removeClientChan and its listener channel.    *)
(* Requests of type addClientRequest / removeClientRequest are put on the  *)
(* channels by "senders" (goroutines that follow the request/reply         *)
(* protocol of the two request types).  StreamUpdates, addClient and       *)
(* removeClient are modelled separately, exactly as they are written.      *)
(***************************************************************************)
EXTENDS Integers, Sequences, FiniteSets, TLC

\* ------------------------------------------------------------------ bounds
\* capacity of a listener channel handed to AddListener, which the model
\* follows until it is full (make(chan core.DataSource, 64) in
\* EnableLegacySupport)
LegacyChanCap == 1
\* number of lines in the body of a METAR response
MaxLines == 2
\* number of protocol senders (each owns one updates channel)
NumSenders == 2
\* number of WakeListeners calls in a behaviour
MaxWake == 2
\* number of producer state changes in a behaviour
MaxRefresh == 2
\* capacity of a subscriber's updates channel (make(chan *ManifestUpdate, 16)
\* in StreamUpdates; a sender may pass a channel of any capacity)
UpdatesCap == 1

\* number of local calendar days the Day-Boundary Scheduler is followed for
NumDays == 2
\* time of day of the sunrise instant, in slots after local midnight
SunriseTod == 1

Senders == 1..NumSenders
Streams == {NumSenders + 1}

\* ------------------------------------------------------- DataSource flags
BurbleDataSource == 0
JumprunDataSource == 2
METARDataSource == 4
WindsAloftDataSource == 6
SettingsDataSource == 8
\* grpc.go and main refer to core.OptionsDataSource, the flag of the
\* Settings/Options category: the fifth constant of the DataSource block.
OptionsDataSource == SettingsDataSource

Flags == {BurbleDataSource, JumprunDataSource, METARDataSource,
          WindsAloftDataSource, OptionsDataSource}

RECURSIVE BitAnd(_, _)
BitAnd(a, b) ==
    IF a = 0 \/ b = 0 THEN 0
    ELSE (IF a % 2 = 1 /\ b % 2 = 1 THEN 1 ELSE 0) + 2 * BitAnd(a \div 2, b \div 2)

RECURSIVE BitOr(_, _)
BitOr(a, b) ==
    IF a = 0 THEN b
    ELSE IF b = 0 THEN a
    ELSE (IF a % 2 = 1 \/ b % 2 = 1 THEN 1 ELSE 0) + 2 * BitOr(a \div 2, b \div 2)

\* ------------------------------------------------------------ the messages
\* An optional (pointer) message is a sequence of length 0 (nil) or 1.
\* Each category message keeps one representative field of each kind that
\* proto.Equal and proto.Merge treat differently:
\*   Options.DisplayNicknames  proto3 bool scalar (zero value FALSE)
\*   Status.Winds              proto3 string scalar (0 stands for "")
\*   Jumprun.Path              optional sub-message (set only when j.IsSet)
\*   JumprunPath.Heading       proto3 int32 scalar
\*   WindsAloft.Samples        repeated field
\*   Loads.Loads               repeated field
Nil == <<>>
Some(m) == <<m>>

Cats == {"Status", "Options", "Jumprun", "WindsAloft", "Loads"}

EmptyUpdate ==
    [Status |-> Nil, Options |-> Nil, Jumprun |-> Nil, WindsAloft |-> Nil, Loads |-> Nil]

\* the categories set (non-nil) in a ManifestUpdate
CatsOf(u) == {c \in Cats : u[c] # Nil}

\* ---------------------------------------------------- producer state space
JumprunStates ==
    {[IsSet |-> FALSE, Heading |-> 0], [IsSet |-> TRUE, Heading |-> 0],
     [IsSet |-> TRUE, Heading |-> 1]}
SampleLists == {<<>>, <<1>>, <<2>>}
LoadLists == {<<>>, <<1>>}
WindStrings == 0..1

VARIABLES
    \* producers (the state behind s.app.Settings(), METARSource(), Jumprun(),
    \* WindsAloftSource(), BurbleSource())
    options, metar, jumprun, winds, loads,
    \* core.Controller listener channel of processUpdates (c, capacity 128)
    listener,
    \* manifestServiceServer channels
    addClientChan, removeClientChan,
    \* processUpdates locals
    pcActor, clientID, clients, lastUpdate, source, u, req, pending, blockedOn,
    \* the context of processUpdates (cancelled by Stop)
    ctxDone,
    \* the updates channel of every sender / stream
    updates,
    \* senders: position and the id received in the add reply
    pcSender, senderID,
    \* StreamUpdates calls: position and whether the stream context is cancelled
    pcStream, streamCancelled,
    \* history: number of WakeListeners calls, of producer changes, of diff
    \* computations and of broadcast diffs; per channel what was pushed; per
    \* sender LastBroadcast at admission; per category the value last sent
    nWake, nRefresh, nComp, diffSeq, pushed, admitted, lastSent, everDiff,
    \* history: per sender the state a client rebuilds from what was pushed
    \* (the baseline, then every diff overwriting the categories it carries)
    recon,
    \* core.Controller: the done channel is closed (Close)
    done,
    \* the clock behind CurrentTime(), whether Coordinates() succeeds, and
    \* Jumprun().TimeStamp of the active jump-run plan
    now, locationKnown, planTS,
    \* runAtSunriseSunset: position, the local date its sunrise/sunset
    \* instants were computed for, and the two markers
    pcSched, schedDay, lastSunrise, lastSunset,
    \* history: per day the number of sunrise() and sunset() calls and the
    \* number of comparisons made at or after that day's sunset
    sunriseFired, sunsetFired, evalsLate,
    \* launchDataSource goroutine of the Burble feed: position and the outcome
    \* of its latest refresh; history: the number of failed refreshes
    pcPoll, lastRefresh, nFail,
    \* Controller.mutex, and the listener registered by EnableLegacySupport:
    \* its channel and the position of its goroutine
    mutex, legacyChan, pcLegacy,
    \* another caller of WakeListeners (a second poller's update(), the
    \* settings callback, the jump-run callback): position and its flag
    pcWaker, wakerFlag,
    \* history of the legacy goroutine's latest round: the flags it received
    \* and the static content it re-rendered
    legacyGot, rendered,
    \* NewController's optional sources (settings.METAREnabled(),
    \* settings.JumprunEnabled()): whether METARSource() and Jumprun() are
    \* non-nil
    metarEnabled, jumprunEnabled,
    \* WebServer static content per legacy endpoint (SetContent)
    content,
    \* history of the latest metar.Controller.Refresh: its input, the stored
    \* state before it, and the (bool, error) it returned
    mRefresh

schedVars == <<now, locationKnown, planTS, pcSched, schedDay, lastSunrise, lastSunset,
               sunriseFired, sunsetFired, evalsLate>>
wakerVars == <<pcWaker, wakerFlag>>
legacyCfg == <<metarEnabled, jumprunEnabled>>
legacyHist == <<legacyGot, rendered, content, legacyCfg>>
pollVars == <<pcPoll, lastRefresh, nFail, mutex, legacyChan, pcLegacy, wakerVars,
              legacyHist>>
metarVars == <<mRefresh>>
coreVars == <<done, schedVars, pollVars, metarVars>>
prodVars == <<options, metar, jumprun, winds, loads>>
actorVars == <<pcActor, clientID, clients, lastUpdate, source, u, req, pending, blockedOn>>
chanVars == <<listener, addClientChan, removeClientChan, updates>>
senderVars == <<pcSender, senderID>>
streamVars == <<pcStream, streamCancelled>>
histVars == <<nWake, nRefresh, nComp, diffSeq, pushed, admitted, lastSent, everDiff, recon>>
vars == <<prodVars, actorVars, chanVars, senderVars, streamVars, histVars, ctxDone,
          coreVars>>

\* ------------------------------------------------------- pure functions
\* constructUpdate: a category is built when source & <its sources> # 0
constructUpdate(src) ==
    [Options |->
        IF BitAnd(src, OptionsDataSource) # 0
        THEN Some([DisplayNicknames |-> options]) ELSE Nil,
     Status |->
        IF BitAnd(src, BitOr(METARDataSource, WindsAloftDataSource)) # 0
        THEN Some([Winds |-> metar]) ELSE Nil,
     Jumprun |->
        IF BitAnd(src, JumprunDataSource) # 0
        THEN Some([Path |-> IF jumprun.IsSet
                            THEN Some([Heading |-> jumprun.Heading]) ELSE Nil])
        ELSE Nil,
     WindsAloft |->
        IF BitAnd(src, WindsAloftDataSource) # 0
        THEN Some([Samples |-> winds]) ELSE Nil,
     Loads |->
        IF BitAnd(src, BurbleDataSource) # 0
        THEN Some([Loads |-> loads]) ELSE Nil]

\* the source mask of the initial baseline (all sources enabled)
InitialSource ==
    BitOr(BitOr(BitOr(BitOr(BurbleDataSource, OptionsDataSource),
        JumprunDataSource), METARDataSource), WindsAloftDataSource)

\* proto.Equal on two optional messages of one type: two nil messages are
\* equal, a nil and a non-nil message are not, two non-nil messages are equal
\* when all their fields are
ProtoEqual(a, b) == a = b

diff_KeepOptions(x, y) ==
    [Status |-> IF ProtoEqual(x.Status, y.Status) THEN Nil ELSE x.Status,
     Options |-> x.Options,
     Jumprun |-> IF ProtoEqual(x.Jumprun, y.Jumprun) THEN Nil ELSE x.Jumprun,
     WindsAloft |-> IF ProtoEqual(x.WindsAloft, y.WindsAloft) THEN Nil ELSE x.WindsAloft,
     Loads |-> IF ProtoEqual(x.Loads, y.Loads) THEN Nil ELSE x.Loads]

\* ManifestUpdate.diff: x with every category equal to y's set to nil
diff(x, y) ==
    [Status |-> IF ProtoEqual(x.Status, y.Status) THEN Nil ELSE x.Status,
     Options |-> IF ProtoEqual(x.Options, y.Options) THEN Nil ELSE x.Options,
     Jumprun |-> IF ProtoEqual(x.Jumprun, y.Jumprun) THEN Nil ELSE x.Jumprun,
     WindsAloft |-> IF ProtoEqual(x.WindsAloft, y.WindsAloft) THEN Nil ELSE x.WindsAloft,
     Loads |-> IF ProtoEqual(x.Loads, y.Loads) THEN Nil ELSE x.Loads]

\* proto.Merge on the field kinds: a populated (non-zero) scalar of src
\* replaces dst's, an unpopulated one leaves dst's; a populated sub-message
\* is merged recursively into dst's (created when dst has none); the
\* elements of a list of src are appended to dst's list
MergeBool(d, s) == IF s THEN s ELSE d
MergeScalar(d, s) == IF s # 0 THEN s ELSE d
MergeList(d, s) == d \o s

MergePath(d, s) ==
    IF s = Nil THEN d
    ELSE Some([Heading |-> MergeScalar(IF d = Nil THEN 0 ELSE d[1].Heading, s[1].Heading)])

MergeOptions(d, s) ==
    IF s = Nil THEN d
    ELSE Some([DisplayNicknames |->
                 MergeBool(IF d = Nil THEN FALSE ELSE d[1].DisplayNicknames,
                           s[1].DisplayNicknames)])

MergeStatus(d, s) ==
    IF s = Nil THEN d
    ELSE Some([Winds |-> MergeScalar(IF d = Nil THEN 0 ELSE d[1].Winds, s[1].Winds)])

MergeJumprun(d, s) ==
    IF s = Nil THEN d
    ELSE Some([Path |-> MergePath(IF d = Nil THEN Nil ELSE d[1].Path, s[1].Path)])

MergeWindsAloft(d, s) ==
    IF s = Nil THEN d
    ELSE Some([Samples |-> MergeList(IF d = Nil THEN <<>> ELSE d[1].Samples, s[1].Samples)])

MergeLoads(d, s) ==
    IF s = Nil THEN d
    ELSE Some([Loads |-> MergeList(IF d = Nil THEN <<>> ELSE d[1].Loads, s[1].Loads)])

\* proto.Merge(lastUpdate, u)
Merge_Replace(dst, src) == src
Merge(dst, src) ==
    [Status |-> MergeStatus(dst.Status, src.Status),
     Options |-> MergeOptions(dst.Options, src.Options),
     Jumprun |-> MergeJumprun(dst.Jumprun, src.Jumprun),
     WindsAloft |-> MergeWindsAloft(dst.WindsAloft, src.WindsAloft),
     Loads |-> MergeLoads(dst.Loads, src.Loads)]

\* overwrite of the categories present in d (history only: the value last
\* sent for every category)
Overwrite(s, d) == [c \in Cats |-> IF d[c] # Nil THEN d[c] ELSE s[c]]

\* the drain loop: the first notification OR-ed with all the queued ones
RECURSIVE OrAll(_)
OrAll(q) == IF q = <<>> THEN 0 ELSE BitOr(Head(q), OrAll(Tail(q)))

drain_HeadOnly(q) == Head(q)
drain(q) == OrAll(q)

\* capacities of the channels made in newManifestServiceServer and
\* processUpdates
RequestChanCap == 16
ListenerCap == 128

NoReq == [from |-> 0, id |-> 0]

\* ------------------------------------------------------------ local time
\* Time is counted in slots from local midnight of day 0; a local day has
\* DayLen slots, with the sunrise and the sunset instant inside it.
SunsetTod == SunriseTod + 2
DayLen == SunsetTod + 2
Days == 0..(NumDays - 1)
MaxTime == NumDays * DayLen - 1
DayOf(t) == t \div DayLen

\* SunriseAndSunsetTimes: the instants on the date of the clock reading
SunriseOf(d) == d * DayLen + SunriseTod
SunsetOf(d) == d * DayLen + SunsetTod

\* y, m, d := sunset.Date(); thisSunset := []int{y, int(m), d}
DateOf(d) == <<1, 1, d + 1>>
\* lastSunrise := []int{0, 0, 0}
NoDate == <<0, 0, 0>>

\* now.Equal(x) || now.After(x)
AtOrAfter_OnlyEqual(t, x) == t = x
AtOrAfter(t, x) == t = x \/ t > x

\* !reflect.DeepEqual(last, this)
Unfired_Always(last, this) == TRUE
Unfired(last, this) == last # this

\* a history counter, kept finite
Bump(n) == IF n < 2 THEN n + 1 ELSE n

\* the legacy endpoints and what EnableLegacySupport puts there at start
Endpoints == {"/jumprun", "/jumprun.json", "/manifest.json", "/manifest"}
InitialContent ==
    [e \in Endpoints |-> IF e = "/manifest" THEN Some([kind |-> "placeholder"]) ELSE Nil]

\* ------------------------------------------------------------------- Init
InitState ==
    /\ options = TRUE
    /\ metar = 0
    /\ jumprun = [IsSet |-> TRUE, Heading |-> 1]
    /\ winds = <<1>>
    /\ loads = <<>>
    /\ listener = <<>>
    /\ addClientChan = <<>>
    /\ removeClientChan = <<>>
    /\ pcActor = "select"
    /\ clientID = 0
    /\ clients = <<>>
    /\ lastUpdate = constructUpdate(InitialSource)
    /\ source = InitialSource
    /\ u = EmptyUpdate
    /\ req = NoReq
    /\ pending = {}
    /\ blockedOn = 0
    /\ ctxDone = FALSE
    /\ updates = [k \in Senders |-> <<>>]
    /\ pcSender = [k \in Senders |-> "idle"]
    /\ senderID = [k \in Senders |-> 0]
    /\ pcStream = [s \in Streams |-> "idle"]
    /\ streamCancelled = [s \in Streams |-> FALSE]
    /\ nWake = 0
    /\ nRefresh = 0
    /\ nComp = 0
    /\ diffSeq = 0
    /\ pushed = [k \in Senders |-> <<>>]
    /\ admitted = [k \in Senders |-> [last |-> EmptyUpdate, seq |-> 0]]
    /\ lastSent = constructUpdate(InitialSource)
    /\ everDiff = {}
    /\ recon = [k \in Senders |-> EmptyUpdate]
    /\ done = FALSE
    /\ now = 0
    /\ locationKnown = TRUE
    /\ planTS = -1
    /\ pcSched = "compute"
    /\ schedDay = 0
    /\ lastSunrise = NoDate
    /\ lastSunset = NoDate
    /\ sunriseFired = [d \in Days |-> 0]
    /\ sunsetFired = [d \in Days |-> 0]
    /\ evalsLate = [d \in Days |-> 0]
    /\ pcPoll = "refresh"
    /\ lastRefresh = "none"
    /\ nFail = 0
    /\ mutex = "free"
    /\ legacyChan = <<>>
    /\ pcLegacy = "select"
    /\ pcWaker = "idle"
    /\ wakerFlag = 0
    /\ legacyGot = {}
    /\ rendered = {}
    /\ content = InitialContent
    /\ mRefresh = [input |-> [fetched |-> FALSE, lines |-> <<>>], before |-> 0,
                   changed |-> FALSE, err |-> TRUE]

\* every optional source enabled
Init ==
    /\ InitState
    /\ metarEnabled = TRUE
    /\ jumprunEnabled = TRUE

\* any configuration of the optional sources
InitLegacy ==
    /\ InitState
    /\ metarEnabled \in BOOLEAN
    /\ jumprunEnabled \in BOOLEAN

\* ---------------------------------------------------------------- helpers
\* a fault (panic) in the legacy goroutine ends the whole process
Alive == pcLegacy # "panicked"

Full(k) == Len(updates[k]) >= UpdatesCap
Delete_Keep(m, id) == m
Delete(m, id) == [i \in (DOMAIN m) \ {id} |-> m[i]]

\* an entry of an updates channel.  A baseline is the pointer lastUpdate
\* itself (req.updates <- lastUpdate): val records what it pointed to when it
\* was pushed; a diff is the pointer u, which is not written after the push.
BaselineEntry_LastDiff == [baseline |-> TRUE, seq |-> diffSeq, val |-> u]
BaselineEntry == [baseline |-> TRUE, seq |-> diffSeq, val |-> lastUpdate]
DiffEntry(d, n) == [baseline |-> FALSE, seq |-> n, val |-> d]

\* ------------------------------------------------------------- producers
\* a producer's state changes (a refresh, a settings update, a jump-run form)
RefreshOptions ==
    /\ nRefresh < MaxRefresh
    /\ options' = ~options
    /\ nRefresh' = nRefresh + 1
    /\ UNCHANGED <<metar, jumprun, winds, loads, actorVars, chanVars, senderVars,
                   streamVars, nWake, nComp, diffSeq, pushed, recon, admitted, lastSent,
                   everDiff, ctxDone, coreVars>>

RefreshMETAR ==
    /\ nRefresh < MaxRefresh
    /\ \E v \in WindStrings \ {metar} : metar' = v
    /\ nRefresh' = nRefresh + 1
    /\ UNCHANGED <<options, jumprun, winds, loads, actorVars, chanVars, senderVars,
                   streamVars, nWake, nComp, diffSeq, pushed, recon, admitted, lastSent,
                   everDiff, ctxDone, coreVars>>

RefreshJumprun ==
    /\ nRefresh < MaxRefresh
    /\ \E v \in JumprunStates \ {jumprun} : jumprun' = v
    /\ nRefresh' = nRefresh + 1
    /\ UNCHANGED <<options, metar, winds, loads, actorVars, chanVars, senderVars,
                   streamVars, nWake, nComp, diffSeq, pushed, recon, admitted, lastSent,
                   everDiff, ctxDone, coreVars>>

RefreshWinds ==
    /\ nRefresh < MaxRefresh
    /\ \E v \in SampleLists \ {winds} : winds' = v
    /\ nRefresh' = nRefresh + 1
    /\ UNCHANGED <<options, metar, jumprun, loads, actorVars, chanVars, senderVars,
                   streamVars, nWake, nComp, diffSeq, pushed, recon, admitted, lastSent,
                   everDiff, ctxDone, coreVars>>

RefreshBurble ==
    /\ nRefresh < MaxRefresh
    /\ \E v \in LoadLists \ {loads} : loads' = v
    /\ nRefresh' = nRefresh + 1
    /\ UNCHANGED <<options, metar, jumprun, winds, actorVars, chanVars, senderVars,
                   streamVars, nWake, nComp, diffSeq, pushed, recon, admitted, lastSent,
                   everDiff, ctxDone, coreVars>>

\* Controller.WakeListeners(flag): l <- source on the listener channel
WakeListeners(flag) ==
    /\ nWake < MaxWake
    /\ Len(listener) < ListenerCap
    /\ listener' = Append(listener, flag)
    /\ nWake' = nWake + 1
    /\ UNCHANGED <<prodVars, actorVars, addClientChan, removeClientChan, updates,
                   senderVars, streamVars, nRefresh, nComp, diffSeq, pushed,
                   recon, admitted, lastSent, everDiff, ctxDone, coreVars>>

\* ---------------------------------------------------------------- senders
\* s.addClientChan <- addClientRequest{reply, updates}; then <-reply
SendAddRequest(k) ==
    /\ pcSender[k] = "idle"
    /\ \A j \in Senders : j < k => pcSender[j] # "idle"
    /\ Len(addClientChan) < RequestChanCap
    /\ addClientChan' = Append(addClientChan, k)
    /\ pcSender' = [pcSender EXCEPT ![k] = "addWait"]
    /\ UNCHANGED <<prodVars, actorVars, listener, removeClientChan, updates,
                   senderID, streamVars, histVars, ctxDone, coreVars>>

\* s.removeClientChan <- removeClientRequest{reply, id}; then <-reply
SendRemoveRequest(k) ==
    /\ pcSender[k] = "registered"
    /\ Len(removeClientChan) < RequestChanCap
    /\ removeClientChan' = Append(removeClientChan, [from |-> k, id |-> senderID[k]])
    /\ pcSender' = [pcSender EXCEPT ![k] = "removeWait"]
    /\ UNCHANGED <<prodVars, actorVars, listener, addClientChan, updates,
                   senderID, streamVars, histVars, ctxDone, coreVars>>

\* u := <-c on the sender's updates channel
RecvUpdate(k) ==
    /\ updates[k] # <<>>
    /\ updates' = [updates EXCEPT ![k] = Tail(@)]
    /\ UNCHANGED <<prodVars, actorVars, listener, addClientChan, removeClientChan,
                   senderVars, streamVars, histVars, ctxDone, coreVars>>

\* ----------------------------------------------------------- StreamUpdates
\* StreamUpdates: c := make(chan, 16); id := s.addClient(c).  addClient
\* builds the request and receives from request.reply; the request is not
\* sent on s.addClientChan, so c and reply are known to no other goroutine.
StreamUpdatesCall(s) ==
    /\ pcStream[s] = "idle"
    /\ pcStream' = [pcStream EXCEPT ![s] = "addClientReply"]
    /\ UNCHANGED <<prodVars, actorVars, chanVars, senderVars, streamCancelled,
                   histVars, ctxDone, coreVars>>

\* the client disconnects: stream.Context() is cancelled
StreamCancel(s) ==
    /\ pcStream[s] # "idle"
    /\ ~streamCancelled[s]
    /\ streamCancelled' = [streamCancelled EXCEPT ![s] = TRUE]
    /\ UNCHANGED <<prodVars, actorVars, chanVars, senderVars, pcStream,
                   histVars, ctxDone, coreVars>>

\* manifestServiceServer.Stop: s.cancel()
Stop ==
    /\ ~ctxDone
    /\ ctxDone' = TRUE
    /\ UNCHANGED <<prodVars, actorVars, chanVars, senderVars, streamVars, histVars,
                   coreVars>>

\* ------------------------------------------------------ processUpdates
\* for _, client := range clients: the ids the diff is pushed to
Recipients_SkipNewest(cl) == (DOMAIN cl) \ {clientID}
Recipients(cl) == DOMAIN cl

\* the receive from ctx.Done() is ready once the context is cancelled
DoneReady_Never == FALSE
DoneReady == ctxDone

\* case <-ctx.Done(): return
ActorDone ==
    /\ pcActor = "select"
    /\ DoneReady
    /\ pcActor' = "returned"
    /\ UNCHANGED <<prodVars, clientID, clients, lastUpdate, source, u, req, pending,
                   blockedOn, chanVars, senderVars, streamVars, histVars, ctxDone, coreVars>>

\* clientID++
NextClientID_Count(id, cl) == Cardinality(DOMAIN cl) + 1
NextClientID(id, cl) == id + 1

\* case req := <-s.addClientChan: clientID++; clients[clientID] = req.updates
ActorRecvAdd ==
    /\ pcActor = "select"
    /\ addClientChan # <<>>
    /\ LET k == Head(addClientChan) IN
        /\ clientID' = NextClientID(clientID, clients)
        /\ clients' = (NextClientID(clientID, clients) :> k) @@ clients
        /\ req' = [from |-> k, id |-> 0]
        /\ admitted' = [admitted EXCEPT ![k] = [last |-> lastUpdate, seq |-> diffSeq]]
    /\ addClientChan' = Tail(addClientChan)
    /\ pcActor' = "addReply"
    /\ UNCHANGED <<prodVars, lastUpdate, source, u, pending, blockedOn, listener,
                   removeClientChan, updates, senderVars, streamVars, nWake,
                   nRefresh, nComp, diffSeq, pushed, recon, lastSent, everDiff, ctxDone, coreVars>>

\* req.reply <- addClientResponse{id: clientID}: the reply channel is
\* unbuffered, the send completes with the sender's receive
ActorAddReply ==
    /\ pcActor = "addReply"
    /\ pcSender[req.from] = "addWait"
    /\ senderID' = [senderID EXCEPT ![req.from] = clientID]
    /\ pcSender' = [pcSender EXCEPT ![req.from] = "registered"]
    /\ pcActor' = "addPush"
    /\ UNCHANGED <<prodVars, clientID, clients, lastUpdate, source, u, req, pending,
                   blockedOn, chanVars, streamVars, histVars, ctxDone, coreVars>>

\* req.updates <- lastUpdate
ActorAddPush ==
    /\ pcActor = "addPush"
    /\ ~Full(req.from)
    /\ updates' = [updates EXCEPT ![req.from] = Append(@, BaselineEntry)]
    /\ pushed' = [pushed EXCEPT ![req.from] =
                    Append(@, [baseline |-> TRUE, seq |-> diffSeq])]
    /\ recon' = [recon EXCEPT ![req.from] = lastUpdate]
    /\ pcActor' = "select"
    /\ UNCHANGED <<prodVars, clientID, clients, lastUpdate, source, u, req, pending,
                   blockedOn, listener, addClientChan, removeClientChan, senderVars,
                   streamVars, nWake, nRefresh, nComp, diffSeq, admitted, lastSent,
                   everDiff, ctxDone, coreVars>>

\* case req := <-s.removeClientChan: delete(clients, req.id)
ActorRecvRemove ==
    /\ pcActor = "select"
    /\ removeClientChan # <<>>
    /\ req' = Head(removeClientChan)
    /\ clients' = Delete(clients, Head(removeClientChan).id)
    /\ removeClientChan' = Tail(removeClientChan)
    /\ pcActor' = "removeReply"
    /\ UNCHANGED <<prodVars, clientID, lastUpdate, source, u, pending, blockedOn,
                   listener, addClientChan, updates, senderVars, streamVars,
                   histVars, ctxDone, coreVars>>

\* req.reply <- removeClientResponse{}
ActorRemoveReply ==
    /\ pcActor = "removeReply"
    /\ pcSender[req.from] = "removeWait"
    /\ pcSender' = [pcSender EXCEPT ![req.from] = "removed"]
    /\ pcActor' = "select"
    /\ UNCHANGED <<prodVars, clientID, clients, lastUpdate, source, u, req, pending,
                   blockedOn, chanVars, senderID, streamVars, histVars, ctxDone, coreVars>>

\* proto.Merge(lastUpdate, u) at the end of a broadcast, with its history
MergeStep(d) ==
    /\ lastUpdate' = Merge(lastUpdate, d)
    /\ lastSent' = Overwrite(lastSent, d)
    /\ everDiff' = everDiff \cup CatsOf(d)

\* case source = <-c: drain; u := constructUpdate(source); u.diff(lastUpdate)
\* and, with an empty registry, the merge
ActorRecvChange ==
    /\ pcActor = "select"
    /\ listener # <<>>
    /\ listener' = <<>>
    /\ source' = drain(listener)
    /\ nComp' = nComp + 1
    /\ LET d == diff(constructUpdate(drain(listener)), lastUpdate) IN
        /\ u' = d
        /\ IF CatsOf(d) # {}
           THEN /\ diffSeq' = diffSeq + 1
                /\ IF Recipients(clients) = {}
                   THEN /\ MergeStep(d)
                        /\ UNCHANGED <<pcActor, pending>>
                   ELSE /\ pcActor' = "bcast"
                        /\ pending' = Recipients(clients)
                        /\ UNCHANGED <<lastUpdate, lastSent, everDiff>>
           ELSE UNCHANGED <<diffSeq, pcActor, pending, lastUpdate, lastSent, everDiff>>
    /\ UNCHANGED <<prodVars, clientID, clients, req, blockedOn, addClientChan,
                   removeClientChan, updates, senderVars, streamVars, nWake,
                   nRefresh, pushed, recon, admitted, ctxDone, coreVars>>

\* client <- u for the next client of the range; after the last one
\* proto.Merge(lastUpdate, u)
ActorBcastSend(id) ==
    /\ pcActor = "bcast"
    /\ id \in pending
    /\ blockedOn \in {0, id}
    /\ ~Full(clients[id])
    /\ updates' = [updates EXCEPT ![clients[id]] = Append(@, DiffEntry(u, diffSeq))]
    /\ pushed' = [pushed EXCEPT ![clients[id]] =
                    Append(@, [baseline |-> FALSE, seq |-> diffSeq])]
    /\ recon' = [recon EXCEPT ![clients[id]] = Overwrite(@, u)]
    /\ pending' = pending \ {id}
    /\ blockedOn' = 0
    /\ IF pending \ {id} = {}
       THEN /\ MergeStep(u)
            /\ pcActor' = "select"
       ELSE UNCHANGED <<lastUpdate, lastSent, everDiff, pcActor>>
    /\ UNCHANGED <<prodVars, clientID, clients, source, u, req, listener,
                   addClientChan, removeClientChan, senderVars, streamVars, nWake,
                   nRefresh, nComp, diffSeq, admitted, ctxDone, coreVars>>

\* client <- u on a channel that is full: the actor waits in this send
ActorBcastBlock(id) ==
    /\ pcActor = "bcast"
    /\ id \in pending
    /\ blockedOn = 0
    /\ Full(clients[id])
    /\ blockedOn' = id
    /\ UNCHANGED <<prodVars, pcActor, clientID, clients, lastUpdate, source, u, req,
                   pending, chanVars, senderVars, streamVars, histVars, ctxDone, coreVars>>

\* ------------------------------------------------------------------- Next
\* one iteration step of the processUpdates loop
ActorStep ==
    \/ ActorRecvAdd
    \/ ActorAddReply
    \/ ActorAddPush
    \/ ActorRecvRemove
    \/ ActorRemoveReply
    \/ ActorRecvChange
    \/ \E id \in pending : ActorBcastSend(id)
    \/ \E id \in pending : ActorBcastBlock(id)

\* Admission and delivery: every sender, with the settings producer and its
\* notification as the source of diffs.
Next ==
    \/ RefreshOptions
    \/ WakeListeners(OptionsDataSource)
    \/ \E k \in Senders : SendAddRequest(k)
    \/ \E k \in Senders : SendRemoveRequest(k)
    \/ \E k \in Senders : RecvUpdate(k)
    \/ ActorStep

Spec == Init /\ [][Next]_vars

\* Diff and merge: every producer and every flag, with one sender.
NextData ==
    \/ RefreshOptions
    \/ RefreshMETAR
    \/ RefreshJumprun
    \/ RefreshWinds
    \/ RefreshBurble
    \/ \E f \in Flags : WakeListeners(f)
    \/ SendAddRequest(1)
    \/ SendRemoveRequest(1)
    \/ RecvUpdate(1)
    \/ ActorStep

SpecData == Init /\ [][NextData]_vars

\* Admission through StreamUpdates, and shutdown of the actor.
NextStream ==
    \/ \E s \in Streams : StreamUpdatesCall(s)
    \/ \E s \in Streams : StreamCancel(s)
    \/ Stop
    \/ ActorDone
    \/ WakeListeners(OptionsDataSource)
    \/ RefreshOptions
    \/ SendAddRequest(1)
    \/ SendRemoveRequest(1)
    \/ RecvUpdate(1)
    \/ ActorStep

SpecStream == Init /\ [][NextStream]_vars

\* the same behaviours with the scheduling the Go runtime gives: a goroutine
\* that can take a step eventually takes it (the environment need not call
\* Stop, refresh, notify or send requests)
FairSpecStream ==
    /\ SpecStream
    /\ WF_vars(ActorStep)
    /\ WF_vars(ActorDone)
    /\ \A k \in Senders : WF_vars(RecvUpdate(k))

\* the scheduling of the actor goroutine alone: subscribers need not receive
\* from their channels
FairSpecStall ==
    /\ SpecStream
    /\ WF_vars(ActorStep)
    /\ WF_vars(ActorDone)

\* ------------------------------------------------- Day-Boundary Scheduler
notSched == <<options, metar, winds, loads, actorVars, chanVars, senderVars, streamVars,
              histVars, ctxDone, pollVars, metarVars>>

\* the clock advances
Advance ==
    /\ now < MaxTime
    /\ now' = now + 1
    /\ UNCHANGED <<locationKnown, planTS, pcSched, schedDay, lastSunrise, lastSunset,
                   sunriseFired, sunsetFired, evalsLate, jumprun, done, notSched>>

\* Coordinates() starts or stops returning an error (the jump-run plan, the
\* winds settings or the station location it reads change)
LocationChange ==
    /\ locationKnown' = ~locationKnown
    /\ UNCHANGED <<now, planTS, pcSched, schedDay, lastSunrise, lastSunset,
                   sunriseFired, sunsetFired, evalsLate, jumprun, done, notSched>>

\* a jump-run plan is set: IsSet with TimeStamp = the current time
PlanSet ==
    /\ Alive
    /\ planTS # now
    /\ planTS' = now
    /\ jumprun' = [IsSet |-> TRUE, Heading |-> 1]
    /\ UNCHANGED <<now, locationKnown, pcSched, schedDay, lastSunrise, lastSunset,
                   sunriseFired, sunsetFired, evalsLate, done, notSched>>

\* Controller.Close: close(c.done)
Close ==
    /\ Alive
    /\ ~done
    /\ done' = TRUE
    /\ UNCHANGED <<schedVars, jumprun, notSched>>

\* runAtSunriseSunset, top of the loop:
\* sunrise, sunset, err := c.SunriseAndSunsetTimes(); if err != nil { return }
SchedCompute ==
    /\ pcSched = "compute"
    /\ IF locationKnown
       THEN /\ schedDay' = DayOf(now)
            /\ pcSched' = "compare"
       ELSE /\ pcSched' = "returned"
            /\ UNCHANGED schedDay
    /\ UNCHANGED <<now, locationKnown, planTS, lastSunrise, lastSunset,
                   sunriseFired, sunsetFired, evalsLate, jumprun, done, notSched>>

\* lastSunset = thisSunset: the two markers after the sunset transition
AfterSunset_Shared(d) == [sunset |-> DateOf(d), sunrise |-> DateOf(d)]
AfterSunset(d) == [sunset |-> DateOf(d), sunrise |-> lastSunrise]

\* now := c.CurrentTime(); the sunset comparison with c.sunset() and its
\* marker; the sunrise comparison up to the call of c.sunrise()
SchedCompare ==
    /\ pcSched = "compare"
    /\ IF AtOrAfter(now, SunsetOf(schedDay)) /\ Unfired(lastSunset, DateOf(schedDay))
       THEN /\ sunsetFired' = [sunsetFired EXCEPT ![schedDay] = Bump(@)]
            /\ lastSunset' = AfterSunset(schedDay).sunset
            /\ lastSunrise' = AfterSunset(schedDay).sunrise
       ELSE UNCHANGED <<sunsetFired, lastSunset, lastSunrise>>
    /\ IF AtOrAfter(now, SunriseOf(schedDay)) /\ Unfired(lastSunrise, DateOf(schedDay))
       THEN pcSched' = "sunrise"
       ELSE pcSched' = "select"
    /\ evalsLate' = IF now >= SunsetOf(schedDay)
                    THEN [evalsLate EXCEPT ![schedDay] = Bump(@)]
                    ELSE evalsLate
    /\ UNCHANGED <<now, locationKnown, planTS, schedDay, sunriseFired,
                   jumprun, done, notSched>>

\* Controller.sunrise(): the plan is reset when SunriseAndSunsetTimes
\* succeeds, the plan's timestamp is before the sunrise of the current date
\* and the clock reads after it
ResetsPlan ==
    /\ locationKnown
    /\ planTS < SunriseOf(DayOf(now))
    /\ now > SunriseOf(DayOf(now))

\* c.sunrise(); lastSunrise = thisSunrise
SchedSunrise ==
    /\ pcSched = "sunrise"
    /\ jumprun' = IF ResetsPlan THEN [IsSet |-> FALSE, Heading |-> 0] ELSE jumprun
    /\ sunriseFired' = [sunriseFired EXCEPT ![schedDay] = Bump(@)]
    /\ lastSunrise' = DateOf(schedDay)
    /\ pcSched' = "select"
    /\ UNCHANGED <<now, locationKnown, planTS, schedDay, lastSunset, sunsetFired,
                   evalsLate, done, notSched>>

\* select { case <-c.Done(): return; case <-t.C: }
SchedSelect ==
    /\ pcSched = "select"
    /\ \/ done /\ pcSched' = "returned"
       \/ pcSched' = "compute"
    /\ UNCHANGED <<now, locationKnown, planTS, schedDay, lastSunrise, lastSunset,
                   sunriseFired, sunsetFired, evalsLate, jumprun, done, notSched>>

NextSched ==
    \/ Advance
    \/ LocationChange
    \/ PlanSet
    \/ Close
    \/ SchedCompute
    \/ SchedCompare
    \/ SchedSunrise
    \/ SchedSelect

SpecSched == Init /\ [][NextSched]_vars

\* ------------------------------------------------------- Source Poller
notPoll == <<prodVars, actorVars, chanVars, senderVars, streamVars, histVars, ctxDone,
             schedVars, metarVars>>

\* what refresh() can report: an error, or success with the feed's data the
\* same as before or changed
RefreshResults == {"error", "same", "changed"}

\* if err := refresh(); err != nil { log } else { update() }
AfterRefresh_StopOnError(r) == IF r = "error" THEN "returned" ELSE "lock"
AfterRefresh(r) == IF r = "error" THEN "sleep" ELSE "lock"

PollRefresh ==
    /\ Alive
    /\ pcPoll = "refresh"
    /\ \E r \in RefreshResults :
          /\ lastRefresh' = r
          /\ pcPoll' = AfterRefresh(r)
          /\ nFail' = IF r = "error" THEN Bump(nFail) ELSE nFail
    /\ UNCHANGED <<mutex, legacyChan, pcLegacy, done, notPoll, wakerVars, legacyHist>>

\* update() = c.WakeListeners(BurbleDataSource): c.mutex.Lock()
PollLock ==
    /\ Alive
    /\ pcPoll = "lock"
    /\ mutex = "free"
    /\ mutex' = "poll"
    /\ pcPoll' = "send"
    /\ UNCHANGED <<lastRefresh, nFail, legacyChan, pcLegacy, done, notPoll, wakerVars, legacyHist>>

\* for _, l := range c.listeners { l <- source }; the deferred Unlock; then
\* nextTime := nextRefresh() and the ticker
PollSend ==
    /\ Alive
    /\ pcPoll = "send"
    /\ Len(legacyChan) < LegacyChanCap
    /\ legacyChan' = Append(legacyChan, BurbleDataSource)
    /\ mutex' = "free"
    /\ pcPoll' = "sleep"
    /\ UNCHANGED <<lastRefresh, nFail, pcLegacy, done, notPoll, wakerVars, legacyHist>>

\* select { case <-c.Done(): return; case <-t.C: }
PollSelect ==
    /\ Alive
    /\ pcPoll = "sleep"
    /\ \/ done /\ pcPoll' = "returned"
       \/ pcPoll' = "refresh"
    /\ UNCHANGED <<lastRefresh, nFail, mutex, legacyChan, pcLegacy, done, notPoll,
                   wakerVars, legacyHist>>

\* the static content the legacy goroutine renders for a combined mask:
\* updateWindsStaticData, updateJumprunStaticData, updateManifestStaticData
Rendered(src) ==
    (IF BitAnd(src, WindsAloftDataSource) # 0 THEN {"winds"} ELSE {}) \cup
    (IF BitAnd(src, JumprunDataSource) # 0 THEN {"jumprun"} ELSE {}) \cup
    {"manifest"}

\* the renderings of the current jump-run state: j.LegacyContent() and
\* json.Marshal(j), both stored with time.Unix(j.TimeStamp, 0)
JumprunLegacy == [kind |-> "text", of |-> jumprun, mtime |-> planTS]
JumprunJSON == [kind |-> "json", of |-> jumprun, mtime |-> planTS]

\* updateJumprunStaticData on the content c; marshalErr is the outcome of
\* json.Marshal(j), whose bytes are nil when it fails
updateJumprunStaticData(c, marshalErr) ==
    IF ~jumprunEnabled THEN c
    ELSE [c EXCEPT !["/jumprun"] = Some(JumprunLegacy),
                   !["/jumprun.json"] =
                       IF marshalErr
                       THEN Some([kind |-> "nil", of |-> jumprun, mtime |-> planTS])
                       ELSE @]

\* the renderings of updateManifestStaticData on the content c: the Manifest
\* struct as JSON (the METAR fields only when the source exists) and the
\* legacy text
ManifestJSON(c) ==
    [kind |-> "json", loads |-> loads, metar |-> IF metarEnabled THEN Some(metar) ELSE Nil,
     jumprunTime |-> IF c["/jumprun.json"] = Nil THEN Nil
                     ELSE Some(c["/jumprun.json"][1].mtime)]
ManifestLegacy == [kind |-> "text", loads |-> loads, metar |-> metar, winds |-> winds]

\* metarSource.TemperatureString() and the three calls after it lock
\* metarSource.lock: a nil metarSource faults there
ManifestFaults == ~metarEnabled

updateManifestStaticData(c) ==
    [c EXCEPT !["/manifest.json"] = Some(ManifestJSON(c)),
              !["/manifest"] = IF ManifestFaults THEN @ ELSE Some(ManifestLegacy)]

\* EnableLegacySupport goroutine: case source := <-c, the drain loop and the
\* static data updates
LegacyRecv ==
    /\ pcLegacy = "select"
    /\ legacyChan # <<>>
    /\ legacyChan' = <<>>
    /\ legacyGot' = {legacyChan[i] : i \in DOMAIN legacyChan}
    /\ rendered' = Rendered(OrAll(legacyChan))
    /\ \E marshalErr \in BOOLEAN :
          content' = updateManifestStaticData(
                         IF BitAnd(OrAll(legacyChan), JumprunDataSource) # 0
                         THEN updateJumprunStaticData(content, marshalErr)
                         ELSE content)
    /\ pcLegacy' = IF ManifestFaults THEN "panicked" ELSE "select"
    /\ UNCHANGED <<pcPoll, lastRefresh, nFail, mutex, done, notPoll, wakerVars, legacyCfg>>

\* EnableLegacySupport goroutine: case <-s.app.Done(): return
LegacyDone ==
    /\ pcLegacy = "select"
    /\ done
    /\ pcLegacy' = "returned"
    /\ UNCHANGED <<pcPoll, lastRefresh, nFail, mutex, legacyChan, done, notPoll,
                   wakerVars, legacyHist>>

\* another goroutine calls c.WakeListeners(f)
WakerCall(f) ==
    /\ Alive
    /\ pcWaker = "idle"
    /\ pcWaker' = "lock"
    /\ wakerFlag' = f
    /\ UNCHANGED <<pcPoll, lastRefresh, nFail, mutex, legacyChan, pcLegacy, legacyHist,
                   done, notPoll>>

\* c.mutex.Lock()
WakerLock ==
    /\ Alive
    /\ pcWaker = "lock"
    /\ mutex = "free"
    /\ mutex' = "waker"
    /\ pcWaker' = "send"
    /\ UNCHANGED <<pcPoll, lastRefresh, nFail, legacyChan, pcLegacy, wakerFlag,
                   legacyHist, done, notPoll>>

\* l <- source and the deferred Unlock
WakerSend ==
    /\ Alive
    /\ pcWaker = "send"
    /\ Len(legacyChan) < LegacyChanCap
    /\ legacyChan' = Append(legacyChan, wakerFlag)
    /\ mutex' = "free"
    /\ pcWaker' = "idle"
    /\ UNCHANGED <<pcPoll, lastRefresh, nFail, pcLegacy, wakerFlag, legacyHist, done,
                   notPoll>>

NextPoll ==
    \/ PollRefresh
    \/ PollLock
    \/ PollSend
    \/ PollSelect
    \/ LegacyRecv
    \/ LegacyDone
    \/ \E f \in Flags : WakerCall(f)
    \/ WakerLock
    \/ WakerSend
    \/ Close

SpecPoll == Init /\ [][NextPoll]_vars

\* the legacy updater in every configuration of the optional sources
NextLegacy ==
    \/ \E f \in Flags : WakerCall(f)
    \/ WakerLock
    \/ WakerSend
    \/ LegacyRecv
    \/ LegacyDone
    \/ PlanSet
    \/ Close

SpecLegacy == InitLegacy /\ [][NextLegacy]_vars

\* ------------------------------------------------------ weather producer
\* A line of the response body, by what parseLine looks at.  reject is the
\* first check the line fails: "type" (fields[0] is neither METAR nor
\* SPECI), "station" (fields[1] is not the configured station), "short" (the
\* fields end before the temperature group), or "none".  content is what
\* the line's groups parse to (winds, sky cover, weather condition,
\* temperature; 0 is the zero value of the Controller's fields).
MetarLines ==
    [reject : {"none", "type", "station", "short"}, content : WindStrings]

\* what http.Get / io.ReadAll deliver: an error, or a body that
\* strings.Split cuts into at least one line
MetarInputs ==
    {[fetched |-> FALSE, lines |-> <<>>]} \cup
    {[fetched |-> TRUE, lines |-> ls] :
        ls \in UNION {[1..n -> MetarLines] : n \in 1..MaxLines}}

\* a line parseLine does not reject
Usable(line) == line.reject = "none"

\* parseLine: an error for a rejected line; otherwise the content is stored
\* and changed tells whether it differed from what was stored
parseLine_StoreFirst(line, stored) ==
    [changed |-> Usable(line) /\ line.content # stored, err |-> ~Usable(line),
     stored |-> line.content]
parseLine(line, stored) ==
    IF Usable(line)
    THEN [changed |-> line.content # stored, err |-> FALSE, stored |-> line.content]
    ELSE [changed |-> FALSE, err |-> TRUE, stored |-> stored]

\* for _, line := range lines { if ok, err = c.parseLine(line); ok { return
\* true, nil } }; return false, errors.New("No usable data returned")
RECURSIVE RefreshLines(_, _)
RefreshLines(ls, stored) ==
    IF ls = <<>>
    THEN [changed |-> FALSE, err |-> TRUE, stored |-> stored]
    ELSE LET r == parseLine(Head(ls), stored) IN
         IF r.changed
         THEN [changed |-> TRUE, err |-> FALSE, stored |-> r.stored]
         ELSE RefreshLines(Tail(ls), r.stored)

\* metar.Controller.Refresh
MetarRefreshResult(input, stored) ==
    IF ~input.fetched
    THEN [changed |-> FALSE, err |-> TRUE, stored |-> stored]
    ELSE RefreshLines(input.lines, stored)

MetarRefresh ==
    /\ \E input \in MetarInputs :
          LET r == MetarRefreshResult(input, metar) IN
          /\ metar' = r.stored
          /\ mRefresh' = [input |-> input, before |-> metar,
                          changed |-> r.changed, err |-> r.err]
    /\ UNCHANGED <<options, jumprun, winds, loads, actorVars, chanVars, senderVars,
                   streamVars, histVars, ctxDone, done, schedVars, pollVars>>

NextMetar ==
    \/ MetarRefresh

SpecMetar == Init /\ [][NextMetar]_vars

\* ----------------------------------------------------------------- claims
Registered(k) == \E id \in DOMAIN clients : clients[id] = k
\* the sender's add request has been served up to and including the push
Admitted(k) ==
    /\ pcSender[k] \in {"registered", "removeWait", "removed"}
    /\ ~(pcActor = "addPush" /\ req.from = k)

\* C1: the first message pushed on an admitted subscriber's channel is a
\* baseline holding every category of lastUpdate as it was at admission, no
\* later message on that channel is a baseline, and once the add request is
\* served the baseline has been pushed.
C1_BaselineFirst ==
    \A k \in Senders :
        /\ \A i \in 1..Len(pushed[k]) : pushed[k][i].baseline <=> (i = 1)
        /\ \A i \in 1..Len(updates[k]) :
              updates[k][i].baseline =>
                 /\ CatsOf(admitted[k].last) \subseteq CatsOf(updates[k][i].val)
                 /\ \A c \in CatsOf(admitted[k].last) :
                       updates[k][i].val[c] = admitted[k].last[c]
                 /\ CatsOf(admitted[k].last) \subseteq CatsOf(lastUpdate)
        /\ Admitted(k) => Len(pushed[k]) >= 1

\* a subscriber admitted after an earlier diff got its baseline and then a diff
C1_Witness ==
    \E k \in Senders :
        /\ Len(pushed[k]) >= 2
        /\ pushed[k][1].baseline
        /\ pushed[k][1].seq >= 1
        /\ Len(updates[k]) = 0

\* C2: the baseline is pushed with no diff computed since the admission; the
\* diffs pushed to a subscriber are the consecutive diffs that follow its
\* baseline, none skipped and none older; between two commands every
\* registered subscriber has been sent the latest diff.
C2_DiffsAfterBaseline ==
    \A k \in Senders :
        /\ Len(pushed[k]) >= 1 => pushed[k][1].seq = admitted[k].seq
        /\ \A i \in 2..Len(pushed[k]) : pushed[k][i].seq = pushed[k][1].seq + i - 1
        /\ pcActor \in {"addReply", "addPush"} /\ req.from = k =>
              /\ diffSeq = admitted[k].seq
              /\ lastUpdate = admitted[k].last
        /\ (pcActor = "select" /\ Registered(k)) =>
              /\ Len(pushed[k]) >= 1
              /\ pushed[k][Len(pushed[k])].seq = diffSeq

\* two subscribers admitted at different points, each sent the diff after
C2_Witness ==
    \E j, k \in Senders :
        /\ Len(pushed[j]) >= 3
        /\ Len(pushed[k]) >= 2
        /\ pushed[j][1].seq < pushed[k][1].seq
        /\ pcActor = "select"

\* C3: a caller blocked in addClient on its reply channel has its request on
\* addClientChan or in the hands of the actor (the request reaches the actor,
\* whose reply unblocks the caller).
C3_RequestReachesActor ==
    \A s \in Streams :
        pcStream[s] = "addClientReply" =>
            \/ \E i \in 1..Len(addClientChan) : addClientChan[i] = s
            \/ (pcActor = "addReply" /\ req.from = s)

\* C4: once a sender has received the remove reply its id is not in the
\* registry, and no step pushes onto its channel again.
C4_NoPushAfterRemove ==
    /\ [](\A k \in Senders : pcSender[k] = "removed" => senderID[k] \notin DOMAIN clients)
    /\ [][\A k \in Senders : pcSender[k] = "removed" =>
             /\ pushed'[k] = pushed[k]
             /\ Len(updates'[k]) <= Len(updates[k])]_vars

\* a diff was broadcast after a sender received its remove reply
C4_Witness ==
    \E k \in Senders :
        /\ pcSender[k] = "removed"
        /\ Len(pushed[k]) >= 1
        /\ pushed[k][Len(pushed[k])].seq < diffSeq
        /\ pcActor = "select"

\* C5: after the stream context is cancelled, and unless the actor is
\* stopped, StreamUpdates returns (its deferred removeClient has completed).
C5_StreamEnds ==
    \A s \in Streams : streamCancelled[s] ~> (pcStream[s] = "returned" \/ ctxDone)

\* C6: the diff of a computation holds exactly the categories of the
\* Candidate that are absent from lastUpdate or differ from it, with the
\* Candidate's value.
C6_DiffExact ==
    [][nComp' = nComp + 1 =>
         LET S1 == lastUpdate
             S2 == constructUpdate(source')
         IN \A c \in Cats :
               /\ (u'[c] # Nil) <=> (S2[c] # Nil /\ (S1[c] = Nil \/ S2[c] # S1[c]))
               /\ u'[c] # Nil => u'[c] = S2[c]]_vars

\* a diff being broadcast that kept some categories of the Candidate and
\* dropped others
C6_Witness ==
    /\ pcActor = "bcast"
    /\ CatsOf(u) # {}
    /\ CatsOf(constructUpdate(source)) \ CatsOf(u) # {}

\* C7: after the merge, lastUpdate holds for every category of the diff the
\* value carried by the diff.
C7_MergeOverwrites ==
    pcActor = "select" => \A c \in CatsOf(u) : lastUpdate[c] = u[c]

\* C8: a diff that is broadcast carries at least one category whose value
\* differs from the value last sent for it (a notification that finds every
\* category as last broadcast pushes nothing).
C8_NoOpSuppressed ==
    pcActor = "bcast" => \E c \in CatsOf(u) : u[c] # lastSent[c]

\* C9: a receive from the listener channel takes every queued notification,
\* the combined mask has exactly the bits set in some queued mask, and the
\* step is one diff computation and at most one broadcast.
C9_Coalesce ==
    [][Len(listener') < Len(listener) =>
         /\ listener' = <<>>
         /\ nComp' = nComp + 1
         /\ diffSeq' \in {diffSeq, diffSeq + 1}
         /\ \A b \in {1, 2, 4, 8} :
               (BitAnd(source', b) # 0) <=>
                  (\E i \in 1..Len(listener) : BitAnd(listener[i], b) # 0)]_vars

\* two notifications with different bits served by one computation
C9_Witness ==
    /\ nComp = 1
    /\ nWake = 2
    /\ listener = <<>>
    /\ source \notin Flags

\* C10: between two commands lastUpdate holds, for every category that was
\* in a diff, the value of the latest diff that carried it, and a category
\* absent from lastUpdate was in no diff.
C10_LastBroadcastIsUnion ==
    pcActor = "select" =>
        \A c \in Cats :
            /\ c \in everDiff => lastUpdate[c] = lastSent[c]
            /\ lastUpdate[c] = Nil => c \notin everDiff

\* C11: between two commands, what a registered subscriber rebuilds from its
\* baseline and the diffs pushed to it equals lastUpdate, and for every
\* category that was in a diff it equals the value of the latest diff.
C11_StreamSemantics ==
    \A k \in Senders :
        (pcActor = "select" /\ Registered(k) /\ Len(pushed[k]) >= 1) =>
            \A c \in Cats :
                /\ recon[k][c] = lastUpdate[c]
                /\ c \in everDiff => recon[k][c] = lastSent[c]

\* C12: a computation that serves a notification reported with the Loads
\* flag, while the loads have changed since the start and differ from what
\* was last sent, yields a diff that
\* carries Loads with the producer's value (the diff then pushed to every
\* registered subscriber).
C12_LoadsNotLost ==
    [][(/\ Len(listener') < Len(listener)
        /\ \E i \in 1..Len(listener) : listener[i] = BurbleDataSource
        /\ loads # <<>>
        /\ lastSent.Loads # Some([Loads |-> loads]))
       => u'.Loads = Some([Loads |-> loads])]_vars

\* C13: the sunrise transition and the sunset transition are each fired at
\* most once per local calendar day, whatever the spacing of the ticks.
C13_AtMostOncePerDay ==
    \A d \in Days : sunriseFired[d] <= 1 /\ sunsetFired[d] <= 1

\* both transitions of a day have fired and the scheduler has ticked again
\* after that day's sunset
C13_Witness ==
    \E d \in Days : sunriseFired[d] = 1 /\ sunsetFired[d] = 1 /\ evalsLate[d] >= 2

\* C14: once the scheduler has made a comparison at or after a day's sunset
\* (it ticked across the day, at whatever interval) and is not in the middle
\* of that day's sunrise call, each transition of the day has fired exactly
\* once.
C14_ExactlyOnce ==
    \A d \in Days :
        (evalsLate[d] >= 1 /\ ~(pcSched = "sunrise" /\ schedDay = d)) =>
            sunriseFired[d] = 1 /\ sunsetFired[d] = 1

\* the day is over, the scheduler ticked across it, both transitions fired
C14_Witness ==
    \E d \in Days :
        /\ DayOf(now) > d
        /\ evalsLate[d] >= 1
        /\ sunriseFired[d] = 1
        /\ sunsetFired[d] = 1
        /\ pcSched = "select"

\* C15: when the sunrise transition fires for day D, a set plan whose
\* timestamp is before D's sunrise is reset, and any other plan is left
\* unchanged, at whatever instant the firing tick occurs.
C15_SunriseReset ==
    [][(pcSched = "sunrise" /\ pcSched' = "select") =>
          IF jumprun.IsSet /\ planTS < SunriseOf(schedDay)
          THEN ~jumprun'.IsSet
          ELSE jumprun' = jumprun]_vars

\* C16: a tick on which the location is unavailable does not end the
\* scheduler: it returns only after the controller is closed.
C16_SkipAndRetry ==
    pcSched = "returned" => done

\* C17: a refresh that returns an error takes the poller to the same sleep
\* as a successful cycle; from the sleep it refreshes again unless the
\* controller is closed, and it returns from nowhere else.
C17_ErrorKeepsLoop ==
    [][/\ (pcPoll = "refresh" /\ pcPoll' # pcPoll /\ lastRefresh' = "error") =>
              pcPoll' = "sleep"
       /\ (pcPoll = "sleep" /\ pcPoll' # pcPoll) =>
              (pcPoll' = "refresh" \/ (done /\ pcPoll' = "returned"))
       /\ (pcPoll # "returned" /\ pcPoll' = "returned") =>
              (pcPoll = "sleep" /\ done)]_vars

\* after two failed refreshes the poller is about to refresh again
C17_Witness ==
    nFail >= 2 /\ lastRefresh = "error" /\ pcPoll = "refresh" /\ ~done

\* C18: the poller is inside its notification callback only in a cycle
\* whose refresh succeeded and reported a change.
C18_NotifyOnlyWhenChanged ==
    pcPoll \in {"lock", "send"} => lastRefresh = "changed"

\* C19: after Close a poller is never left inside WakeListeners, sending to a
\* full listener channel whose reader has returned.
C19_PollerExits ==
    ~(/\ done
      /\ pcPoll = "send"
      /\ Len(legacyChan) >= LegacyChanCap
      /\ pcLegacy = "returned")

\* the actor is inside a send that cannot proceed: the baseline push or a
\* diff push to a subscriber whose channel is full
SendBlocked ==
    \/ pcActor = "addPush" /\ Full(req.from)
    \/ pcActor = "bcast" /\ blockedOn # 0 /\ Full(clients[blockedOn])

\* C20 as stated: after Stop cancels the context, processUpdates returns.
C20_StopReturns_Original ==
    ctxDone ~> (pcActor = "returned")

\* C20: after Stop cancels the context, processUpdates returns unless it
\* stays blocked for ever in a send to a subscriber whose channel is full.
C20_StopReturns ==
    ctxDone ~> (pcActor = "returned" \/ []SendBlocked)

\* the actor has returned after Stop while a registered subscriber's channel
\* is full
C20_Witness ==
    /\ ctxDone
    /\ pcActor = "returned"
    /\ \E k \in Senders : Registered(k) /\ Full(k)

\* the DataSource flag of every category
CatFlag ==
    [Options |-> OptionsDataSource, Status |-> METARDataSource,
     Jumprun |-> JumprunDataSource, WindsAloft |-> WindsAloftDataSource,
     Loads |-> BurbleDataSource]

\* C21: from the mask the actor combines out of the notifications it drains,
\* mask & flag # 0 holds for exactly the categories whose flag was notified.
C21_FlagsRecoverable ==
    [][Len(listener') < Len(listener) =>
          \A c \in Cats :
              (BitAnd(source', CatFlag[c]) # 0) <=>
              (\E i \in 1..Len(listener) : listener[i] = CatFlag[c])]_vars

\* C22: a Refresh of the weather producer that returns an error returns
\* changed = false, and a Refresh whose body holds a usable report, with
\* every usable report equal to the stored state, returns changed = false
\* and no error.
C22_RefreshResult ==
    /\ mRefresh.err => ~mRefresh.changed
    /\ (/\ mRefresh.input.fetched
        /\ \E i \in DOMAIN mRefresh.input.lines : Usable(mRefresh.input.lines[i])
        /\ \A i \in DOMAIN mRefresh.input.lines :
              Usable(mRefresh.input.lines[i]) =>
                  mRefresh.input.lines[i].content = mRefresh.before)
       => (~mRefresh.changed /\ ~mRefresh.err)

\* C23: the legacy updater re-renders the wind-aloft content only in a round
\* that received the WindsAloft flag, and the jump-run content only in a
\* round that received the Jumprun flag.
C23_RenderOwnCategory ==
    /\ "winds" \in rendered => WindsAloftDataSource \in legacyGot
    /\ "jumprun" \in rendered => JumprunDataSource \in legacyGot

\* C28: while the poller waits inside WakeListeners for room in a full
\* listener channel, another caller of WakeListeners can take its next step.
C28_WakeDoesNotBlockOthers ==
    (pcPoll = "send" /\ Len(legacyChan) >= LegacyChanCap /\ pcWaker = "lock")
        => ENABLED WakerLock

\* C24: the Candidate built for the combined mask of a round holds a category
\* if and only if that category's flag was among the notifications combined.
C24_CandidateIffFlag ==
    [][Len(listener') < Len(listener) =>
          \A c \in Cats :
              (constructUpdate(source')[c] # Nil) <=>
              (\E i \in 1..Len(listener) : listener[i] = CatFlag[c])]_vars

\* the number of pushes of diff number n recorded for a channel
DiffCount(p, n) == Cardinality({i \in 1..Len(p) : ~p[i].baseline /\ p[i].seq = n})

C26_MergeFrame ==
    [][/\ \A c \in Cats : lastUpdate'[c] # lastUpdate[c] => u'[c] # Nil
       /\ (pcActor \in {"addReply", "addPush", "removeReply"} \/
           pcActor' \in {"addReply", "addPush", "removeReply"}) =>
              lastUpdate' = lastUpdate]_vars

\* a diff with Status only has been merged, the other categories of
\* lastUpdate are as at the start, and a subscriber has been added and removed
C26_Witness ==
    /\ pcActor = "select"
    /\ everDiff = {"Status"}
    /\ lastUpdate.Status # constructUpdate(InitialSource).Status
    /\ \A c \in Cats \ {"Status"} : lastUpdate[c] = constructUpdate(InitialSource)[c]
    /\ lastUpdate.Options # Nil
    /\ pcSender[1] = "removed"

\* what a subscriber finds in a message of its channel when it reads it: a
\* baseline is the pointer lastUpdate (req.updates <- lastUpdate), whose
\* target proto.Merge writes in place; a diff is a message of its own
Deref(e) == IF e.baseline THEN lastUpdate ELSE e.val

\* C27: the content of every message waiting in a subscriber's channel is
\* what it was when the actor pushed it.
C27_NoSharedBuffer ==
    \A k \in Senders :
        \A i \in 1..Len(updates[k]) : Deref(updates[k][i]) = updates[k][i].val

\* C29: the identifier given to an admitted subscriber is greater than every
\* identifier assigned before it, in the registry or already removed, and
\* no two subscribers hold the same identifier.
C29_MonotonicIds ==
    [][/\ Len(addClientChan') < Len(addClientChan) =>
              /\ clientID' > clientID
              /\ \A id \in DOMAIN clients : id < clientID'
              /\ \A k \in Senders : senderID[k] < clientID'
              /\ DOMAIN clients' = DOMAIN clients \cup {clientID'}
       /\ \A j, k \in Senders :
              (j # k /\ senderID'[j] # 0 /\ senderID'[k] # 0) =>
                  senderID'[j] # senderID'[k]]_vars

\* the second subscriber is being admitted after the first was removed
C29_Witness ==
    /\ pcActor = "addReply"
    /\ req.from = 2
    /\ pcSender[1] = "removed"
    /\ senderID[1] = 1
    /\ clientID = 2
    /\ DOMAIN clients = {2}

\* C30: the sunset transition changes lastSunset and not lastSunrise, the
\* sunrise transition changes lastSunrise and not lastSunset, and a step
\* that fires neither changes no marker.
C30_MarkersIndependent ==
    [][/\ sunsetFired' # sunsetFired =>
              (lastSunset' = DateOf(schedDay) /\ lastSunrise' = lastSunrise)
       /\ sunriseFired' # sunriseFired =>
              (lastSunrise' = DateOf(schedDay) /\ lastSunset' = lastSunset)
       /\ (sunsetFired' = sunsetFired /\ sunriseFired' = sunriseFired) =>
              (lastSunset' = lastSunset /\ lastSunrise' = lastSunrise)]_vars

\* the sunset of day 0 has fired on a tick that found the sunrise marker
\* already set, and on day 1 only the sunrise has fired so far
C30_Witness ==
    /\ lastSunset = DateOf(0)
    /\ lastSunrise = DateOf(1)
    /\ sunsetFired[0] = 1
    /\ sunriseFired[0] = 1
    /\ pcSched = "select"

\* C31: a Refresh that receives the same response as the Refresh before it
\* leaves the stored state as it was, returns changed = false, and the
\* stored state is that of the first usable line of the response.
C31_RefreshIdempotent ==
    [][(mRefresh.input.fetched /\ mRefresh'.input = mRefresh.input) =>
          LET ls == SelectSeq(mRefresh.input.lines, Usable) IN
          /\ metar' = metar
          /\ ~mRefresh'.changed
          /\ ls # <<>> => metar' = ls[1].content]_vars

\* C32: the lines of a response that parseLine rejects do not touch the
\* stored state: a response with no usable line leaves it as it was, and
\* any response leaves it as the same response without its rejected lines
\* does.
C32_RejectedLineKeepsState ==
    [][mRefresh'.input.fetched =>
          LET ls == mRefresh'.input.lines IN
          /\ SelectSeq(ls, Usable) = <<>> => (metar' = metar /\ mRefresh'.err)
          /\ metar' = RefreshLines(SelectSeq(ls, Usable), metar).stored]_vars

\* the latest response had two rejected lines, one of them with a content
\* other than the stored state, which an earlier Refresh had set
C32_Witness ==
    /\ mRefresh.input.fetched
    /\ Len(mRefresh.input.lines) = 2
    /\ \A i \in 1..2 : ~Usable(mRefresh.input.lines[i])
    /\ \E i \in 1..2 : mRefresh.input.lines[i].content # mRefresh.before
    /\ metar = mRefresh.before
    /\ metar # 0

\* C33: a round of the legacy updater that received the Jumprun flag, with
\* a jump-run controller present, leaves in /jumprun and in /jumprun.json
\* the renderings of the current jump-run state, stamped with its timestamp.
C33_JumprunContentReplaced ==
    [][(/\ pcLegacy = "select" /\ legacyChan # <<>> /\ legacyChan' = <<>>
        /\ JumprunDataSource \in legacyGot'
        /\ jumprunEnabled)
       => (/\ content'["/jumprun"] = Some(JumprunLegacy)
           /\ content'["/jumprun.json"] = Some(JumprunJSON))]_vars

\* C34: a round of the legacy updater that received a Loads (Burble),
\* Options (settings), Weather (METAR) or WindsAloft flag regenerates the
\* legacy manifest content and does not fault, whichever optional sources
\* are configured.
C34_ManifestRegenerated ==
    [][(/\ pcLegacy = "select" /\ legacyChan # <<>> /\ legacyChan' = <<>>
        /\ legacyGot' \cap {BurbleDataSource, OptionsDataSource, METARDataSource,
                            WindsAloftDataSource} # {})
       => (/\ content'["/manifest"] = Some(ManifestLegacy)
           /\ pcLegacy' # "panicked")]_vars

TypeOK ==
    /\ pcActor \in {"select", "addReply", "addPush", "removeReply", "bcast", "returned"}
    /\ clientID \in 0..NumSenders
    /\ pending \subseteq DOMAIN clients
    /\ \A k \in Senders : Len(updates[k]) <= UpdatesCap
    /\ now \in 0..MaxTime
    /\ pcSched \in {"compute", "compare", "sunrise", "select", "returned"}
    /\ schedDay \in Days
    /\ pcPoll \in {"refresh", "lock", "send", "sleep", "returned"}
    /\ lastRefresh \in {"none"} \cup RefreshResults
    /\ mutex \in {"free", "poll", "waker"}
    /\ pcWaker \in {"idle", "lock", "send"}
    /\ wakerFlag \in Flags
    /\ legacyGot \subseteq Flags
    /\ rendered \subseteq {"winds", "jumprun", "manifest"}
    /\ Len(legacyChan) <= LegacyChanCap
    /\ pcLegacy \in {"select", "returned", "panicked"}
    /\ metarEnabled \in BOOLEAN
    /\ jumprunEnabled \in BOOLEAN
    /\ DOMAIN content = Endpoints
    /\ lastSunrise \in {NoDate} \cup {DateOf(d) : d \in Days}
    /\ lastSunset \in {NoDate} \cup {DateOf(d) : d \in Days}

====
